---- MODULE Spec2Model ----
(***************************************************************************)
(* A model of claude-usage (src/src/index.ts): the credential resolver,    *)
(* the threshold notifier with its persisted state file, and main().       *)
(*                                                                         *)
(* JavaScript values are tagged records, so that values of different       *)
(* types can be compared: undefined, null, strings, numbers, NaN, arrays   *)
(* and objects (a function from the keys that are present to values).      *)
(***************************************************************************)
EXTENDS Integers, Sequences, FiniteSets, TLC

VARIABLES
    credIn,     \* resolver run: the two credential files and Date.now()
    credOut,    \* resolver run: what getAccessToken returned
    nIn,        \* notifier run: the arguments of checkAndNotify
    nOut,       \* notifier run: what checkAndNotify returned and sent
    stateFile,  \* ~/.cache/claude-usage-state.json
    pc,         \* per invocation: where main() is
    usage,      \* per invocation: the usage fetch (pending, failed, or its body)
    profile,    \* per invocation: the profile fetch
    loaded,     \* per invocation: what loadState returned
    st,         \* per invocation: main's state after checkAndNotify
    sent,       \* per invocation: the sendNotification calls, in order
    saved,      \* per invocation: whether Bun.write of the state succeeded
    out,        \* per invocation: the payloads written to stdout, in order
    epochMarker,\* history: the short window's marker at the last evaluation
    epochAlerted, \* history: the thresholds alerted since the marker last changed
    epochRepeats, \* history: the alerts since then that repeated such a threshold
    epochTwice, \* history of overlapping runs: the thresholds alerted twice or
                \* more since then
    epochReached, \* history: the thresholds <= a fivePct evaluated since then
    roundTrip,  \* history: no state write failed since the marker last changed
    log         \* history, per invocation: its store accesses, alerts and payloads

vars == <<credIn, credOut, nIn, nOut, stateFile, pc, usage, profile, loaded,
          st, sent, saved, out, epochMarker, epochAlerted, epochRepeats,
          epochTwice, epochReached, roundTrip, log>>

credVars == <<credIn, credOut>>
notifyVars == <<nIn, nOut>>
mainVars == <<stateFile, pc, usage, profile, loaded, st, sent, saved, out,
              epochMarker, epochAlerted, epochRepeats, epochTwice, epochReached,
              roundTrip, log>>

----------------------------------------------------------------------------
(* Bounds of the model *)

\* Date.now() ranges over 1..MaxClock, expiry instants over 0..MaxClock
MaxClock == 3
\* checkAndNotify is applied to every fivePct in 0..MaxPct
MaxPct == 100
\* the count of repeated alerts of an epoch stops counting here
MaxCount == 2

----------------------------------------------------------------------------
(* JavaScript values *)

Undef == [t |-> "undefined"]
Null == [t |-> "null"]
NaN == [t |-> "NaN"]
Thrown == [t |-> "throw"]
Str(s) == [t |-> "string", s |-> s]
Num(n) == [t |-> "number", n |-> n]
Arr(a) == [t |-> "array", a |-> a]
Obj(o) == [t |-> "object", o |-> o]

\* ToBoolean: undefined, null, "", 0 and NaN are falsy
Truthy(v) ==
    CASE v.t = "undefined" -> FALSE
      [] v.t = "null" -> FALSE
      [] v.t = "NaN" -> FALSE
      [] v.t = "string" -> v.s # ""
      [] v.t = "number" -> v.n # 0
      [] OTHER -> TRUE

\* obj.key on an object: undefined when the key is not there
Get(obj, key) == IF key \in DOMAIN obj.o THEN obj.o[key] ELSE Undef

\* obj.key = v
Set(obj, key, v) ==
    Obj([k \in (DOMAIN obj.o) \cup {key} |-> IF k = key THEN v ELSE obj.o[k]])

\* a ?? b
Coalesce(a, b) == IF a.t \in {"undefined", "null"} THEN b ELSE a

\* JSON.stringify then a later JSON.parse of an object: keys whose value is
\* undefined are not written
JsonStringify(obj) ==
    Obj([k \in {f \in DOMAIN obj.o : obj.o[f] # Undef} |-> obj.o[k]])

----------------------------------------------------------------------------
(* Instants: ISO-8601 strings and epoch milliseconds *)

IsoInstants == <<"1970-01-01T00:00:00.000Z", "1970-01-01T00:00:00.001Z",
                 "1970-01-01T00:00:00.002Z", "1970-01-01T00:00:00.003Z",
                 "1970-01-01T00:00:00.004Z", "1970-01-01T00:00:00.005Z">>

\* new Date(s).getTime(): the epoch milliseconds of s, NaN when s is no date
DateGetTime(s) ==
    IF \E i \in 1..Len(IsoInstants) : IsoInstants[i] = s
    THEN Num((CHOOSE i \in 1..Len(IsoInstants) : IsoInstants[i] = s) - 1)
    ELSE NaN

\* a >= b on numbers; false when either is NaN
NumGE(a, b) == a.t = "number" /\ b.t = "number" /\ a.n >= b.n

----------------------------------------------------------------------------
(* Credential resolver *)

isExpired(expiresAt, now) ==
    IF ~Truthy(expiresAt)
    THEN FALSE
    ELSE LET expiryTime == IF expiresAt.t = "number"
                           THEN expiresAt
                           ELSE DateGetTime(expiresAt.s)
         IN  NumGE(Num(now), expiryTime)

\* A credential file: not there, not readable, not JSON, or a JSON value
FileAbsent == [k |-> "absent"]
FileUnreadable == [k |-> "unreadable"]
FileMalformed == [k |-> "malformed"]
FileJson(v) == [k |-> "json", v |-> v]

\* Bun.file(path).exists() and .json(): a value, or Thrown
ReadJson(file) ==
    CASE file.k = "absent" -> Undef
      [] file.k = "json" -> file.v
      [] OTHER -> Thrown

\* the body of getClaudeToken's try block: a token, null, or Thrown
ClaudeTokenTry(file, now) ==
    IF file.k = "absent" THEN Null
    ELSE LET creds == ReadJson(file) IN
         IF creds = Thrown \/ creds.t # "object" THEN Thrown
         ELSE LET oauth == Get(creds, "claudeAiOauth") IN
              IF oauth.t # "object" \/ ~Truthy(Get(oauth, "accessToken"))
              THEN Null
              ELSE IF isExpired(Get(oauth, "expiresAt"), now)
                   THEN Null
                   ELSE Get(oauth, "accessToken")

\* getClaudeToken without its catch
getClaudeTokenNoCatch(file, now) == ClaudeTokenTry(file, now)

getClaudeToken(file, now) ==
    LET r == ClaudeTokenTry(file, now) IN IF r = Thrown THEN Null ELSE r

\* the body of getOpenCodeToken's try block
OpenCodeTokenTry(file, now) ==
    IF file.k = "absent" THEN Null
    ELSE LET auth == ReadJson(file) IN
         IF auth = Thrown \/ auth.t # "object" THEN Thrown
         ELSE LET anthropic == Get(auth, "anthropic") IN
              IF anthropic.t # "object"
                 \/ ~Truthy(Get(anthropic, "access"))
                 \/ Get(anthropic, "type") # Str("oauth")
              THEN Null
              ELSE IF isExpired(Get(anthropic, "expires"), now)
                   THEN Null
                   ELSE Get(anthropic, "access")

getOpenCodeToken(file, now) ==
    LET r == OpenCodeTokenTry(file, now) IN IF r = Thrown THEN Null ELSE r

\* getAccessToken trying the OpenCode store first
getAccessTokenSwapped(claudeFile, openCodeFile, now) ==
    LET openCodeToken == getOpenCodeToken(openCodeFile, now) IN
    IF Truthy(openCodeToken) THEN openCodeToken
    ELSE LET claudeToken == getClaudeToken(claudeFile, now) IN
         IF Truthy(claudeToken) THEN claudeToken ELSE Null

\* an await of a rejected promise rethrows: Thrown passes through
getAccessToken(claudeFile, openCodeFile, now) ==
    LET claudeToken == getClaudeToken(claudeFile, now) IN
    IF claudeToken = Thrown THEN Thrown
    ELSE IF Truthy(claudeToken) THEN claudeToken
    ELSE LET openCodeToken == getOpenCodeToken(openCodeFile, now) IN
         IF openCodeToken = Thrown THEN Thrown
         ELSE IF Truthy(openCodeToken) THEN openCodeToken
         ELSE Null

(* The credential files and clock values the resolver is run on *)

Clock == 1..MaxClock
Instants == 0..MaxClock

ClaudeExpiries ==
    {Undef, Str(""), Str("not a date")}
        \cup {Str(IsoInstants[i + 1]) : i \in Instants}

OpenCodeExpiries == {Undef} \cup {Num(i) : i \in Instants}

ClaudeOauths ==
    {Undef}
        \cup {Obj([accessToken |-> Str("tokC"), expiresAt |-> e]) :
                e \in ClaudeExpiries \ {Undef}}
        \cup {Obj([accessToken |-> Str("tokC")]),
              Obj([accessToken |-> Str("")]),
              Obj([expiresAt |-> Str(IsoInstants[MaxClock + 1])])}

ClaudeFiles ==
    {FileAbsent, FileUnreadable, FileMalformed, FileJson(Null),
     FileJson(Obj(<<>>))}
        \cup {FileJson(Obj([claudeAiOauth |-> o])) : o \in ClaudeOauths \ {Undef}}

OpenCodeAnthropics ==
    {Obj([type |-> Str("oauth"), access |-> Str("tokO"), expires |-> e]) :
        e \in OpenCodeExpiries \ {Undef}}
        \cup {Obj([type |-> Str("oauth"), access |-> Str("tokO")]),
              Obj([type |-> Str("api"), access |-> Str("tokO")]),
              Obj([access |-> Str("tokO")]),
              Obj([type |-> Str("oauth"), access |-> Str("")]),
              Obj([type |-> Str("oauth")])}

OpenCodeFiles ==
    {FileAbsent, FileUnreadable, FileMalformed, FileJson(Null),
     FileJson(Obj(<<>>))}
        \cup {FileJson(Obj([anthropic |-> a])) : a \in OpenCodeAnthropics}

Pending == [t |-> "pending"]

CredInit ==
    /\ credIn \in [claude : ClaudeFiles, openCode : OpenCodeFiles, now : Clock]
    /\ credOut = Pending

\* one run of the resolver on the files and the clock
Resolve ==
    /\ credOut = Pending
    /\ credOut' = getAccessToken(credIn.claude, credIn.openCode, credIn.now)
    /\ UNCHANGED credIn

----------------------------------------------------------------------------
(* Threshold notifier *)

THRESHOLDS == <<50, 80, 90, 95>>

ThresholdSet == {THRESHOLDS[i] : i \in 1..Len(THRESHOLDS)}

\* the reset markers of the short window: resets_at is a string or not there
MarkerA == Str("2026-01-01T05:00:00Z")
MarkerB == Str("2026-01-01T10:00:00Z")
Markers == {Undef, MarkerA, MarkerB}

\* the urgency and icon chosen from the utilization instead of the threshold
SeverityOfPct(threshold, fivePct) ==
    IF fivePct >= 90 THEN [urgency |-> "critical", icon |-> "red circle"]
    ELSE IF fivePct >= 80 THEN [urgency |-> "critical", icon |-> "orange circle"]
    ELSE [urgency |-> "normal", icon |-> "yellow circle"]

\* the urgency and icon of an alert
Severity(threshold, fivePct) ==
    IF threshold >= 90 THEN [urgency |-> "critical", icon |-> "red circle"]
    ELSE IF threshold >= 80 THEN [urgency |-> "critical", icon |-> "orange circle"]
    ELSE [urgency |-> "normal", icon |-> "yellow circle"]

\* one call of sendNotification: title "<icon> Claude Usage <threshold>%",
\* body "5-hour limit at <fivePct>%", the urgency, and whether notify-send
\* could be spawned (a failure is swallowed)
sendNotification(threshold, fivePct, spawnOk) ==
    [threshold |-> threshold,
     pct |-> fivePct,
     urgency |-> Severity(threshold, fivePct).urgency,
     icon |-> Severity(threshold, fivePct).icon,
     spawned |-> spawnOk]

\* fivePct > threshold
CrossesStrict(fivePct, threshold) == fivePct > threshold

\* fivePct >= threshold
Crosses(fivePct, threshold) == fivePct >= threshold

\* notified.includes(threshold)
Includes(notified, threshold) ==
    \E i \in 1..Len(notified.a) : notified.a[i] = threshold

\* the loop over THRESHOLDS from index i on; notified.includes throws when
\* notified is no array
RECURSIVE NotifyLoop(_, _, _, _, _)
NotifyLoop(i, fivePct, spawnOk, notified, alerts) ==
    IF i > Len(THRESHOLDS)
    THEN [threw |-> FALSE, notified |-> notified, alerts |-> alerts]
    ELSE LET threshold == THRESHOLDS[i] IN
         IF ~Crosses(fivePct, threshold)
         THEN NotifyLoop(i + 1, fivePct, spawnOk, notified, alerts)
         ELSE IF notified.t # "array"
         THEN [threw |-> TRUE, notified |-> notified, alerts |-> alerts]
         ELSE IF Includes(notified, threshold)
         THEN NotifyLoop(i + 1, fivePct, spawnOk, notified, alerts)
         ELSE NotifyLoop(i + 1, fivePct, spawnOk,
                         Arr(Append(notified.a, threshold)),
                         Append(alerts,
                                sendNotification(threshold, fivePct, spawnOk)))

\* the loop leaving after its first alert
NotifyLoopFirstOnly(i, fivePct, spawnOk, notified, alerts) ==
    LET r == NotifyLoop(i, fivePct, spawnOk, notified, alerts) IN
    IF r.threw \/ Len(r.alerts) <= Len(alerts) + 1
    THEN r
    ELSE [threw |-> FALSE,
          notified |-> Arr(SubSeq(r.notified.a, 1, Len(notified.a) + 1)),
          alerts |-> SubSeq(r.alerts, 1, Len(alerts) + 1)]

\* the loop of checkAndNotify (lines 297-322)
NotifyFrom(i, fivePct, spawnOk, notified, alerts) ==
    NotifyLoop(i, fivePct, spawnOk, notified, alerts)

\* the window never counts as reset
WindowResetNever(state, resetAt) == FALSE

\* every evaluation takes the window for a new one
WindowResetAlways(state, resetAt) == TRUE

\* state.last_reset !== resetAt
WindowReset(state, resetAt) == Get(state, "last_reset") # resetAt

\* the reset that adopts the marker and keeps the notified thresholds
ResetStateKeeping(state, resetAt) ==
    Obj([notified_thresholds |-> Get(state, "notified_thresholds"),
         last_reset |-> Coalesce(resetAt, Null)])

\* { notified_thresholds: [], last_reset: resetAt ?? null }
ResetState(state, resetAt) ==
    Obj([notified_thresholds |-> Arr(<<>>),
         last_reset |-> Coalesce(resetAt, Null)])

\* checkAndNotify: the state returned, the alerts sent, or threw (state.last_reset
\* of a state that is no object throws, as does the loop)
checkAndNotify(fivePct, resetAt, state, spawnOk) ==
    IF state.t # "object"
    THEN [threw |-> TRUE, state |-> state, alerts |-> <<>>]
    ELSE LET s1 == IF WindowReset(state, resetAt)
                   THEN ResetState(state, resetAt)
                   ELSE state
             loop == NotifyFrom(1, fivePct, spawnOk,
                               Get(s1, "notified_thresholds"), <<>>)
         IN  [threw |-> loop.threw,
              state |-> Set(s1, "notified_thresholds", loop.notified),
              alerts |-> loop.alerts]

(* The arguments checkAndNotify is run on *)

\* the thresholds of S in ascending order
Ascending(S) == SelectSeq(THRESHOLDS, LAMBDA t : t \in S)

NotifierStates ==
    {Obj([notified_thresholds |-> Arr(Ascending(S)), last_reset |-> m]) :
        S \in SUBSET ThresholdSet, m \in {Null, MarkerA, MarkerB}}

NotifyInit ==
    /\ nIn \in [fivePct : 0..MaxPct, resetAt : Markers,
                state : NotifierStates, spawnOk : BOOLEAN]
    /\ nOut = Pending

\* one application of checkAndNotify
Apply ==
    /\ nOut = Pending
    /\ nOut' = checkAndNotify(nIn.fivePct, nIn.resetAt, nIn.state, nIn.spawnOk)
    /\ UNCHANGED nIn

----------------------------------------------------------------------------
(* Notification state store *)

\* { notified_thresholds: [], last_reset: null }
ZeroState == Obj([notified_thresholds |-> Arr(<<>>), last_reset |-> Null])

\* loadState that hands on what reading the file threw
loadStateNoCatch(file) == IF file.k = "absent" THEN ZeroState ELSE ReadJson(file)

\* loadState: the parsed content as it is, the zero state when the file is
\* not there or reading it threw
loadState(file) ==
    IF file.k = "absent" THEN ZeroState
    ELSE LET r == ReadJson(file) IN IF r = Thrown THEN ZeroState ELSE r

\* saveState: the file afterwards; a failed Bun.write is swallowed and
\* leaves the file as it was
saveState(file, state, writeOk) ==
    IF writeOk THEN FileJson(JsonStringify(state)) ELSE file

----------------------------------------------------------------------------
(* Upstream responses *)

\* a percentage with one decimal, held in tenths
Frac(tenths) == [t |-> "number", x10 |-> tenths]

\* Math.floor, rounding to the nearest integer instead
MathRound(v) == (v.x10 + 5) \div 10

\* Math.floor
MathFloor(v) == v.x10 \div 10

Utilizations == {Frac(195), Frac(500), Frac(809), Frac(925), Frac(1000)}

FiveHourWindows ==
    {Obj(<<>>), Obj([resets_at |-> MarkerA]), Obj([resets_at |-> MarkerB])}
        \cup {Obj([utilization |-> u]) : u \in Utilizations}
        \cup {Obj([utilization |-> u, resets_at |-> m]) :
                u \in Utilizations, m \in {MarkerA, MarkerB}}

SevenDayWindows ==
    {Obj(<<>>), Obj([utilization |-> Frac(301), resets_at |-> MarkerB])}

UsageErrors ==
    {Obj([error |-> Obj([message |-> Str("rate limited")]),
          five_hour |-> Obj([utilization |-> Frac(925), resets_at |-> MarkerA])]),
     Obj([error |-> Obj(<<>>)])}

UsageBodies ==
    UsageErrors
        \cup {Obj([five_hour |-> f, seven_day |-> d]) :
                f \in FiveHourWindows \ {Obj(<<>>)}, d \in SevenDayWindows}
        \cup {Obj([seven_day |-> d]) : d \in SevenDayWindows}

ProfileBodies ==
    {Obj([account |-> Obj([full_name |-> Str("Ann")])]),
     Obj([error |-> Obj([message |-> Str("forbidden")])])}

\* a fetch that rejected (no connection), or whose body is no JSON
Failed(e) == [t |-> "failed", e |-> e]
Failures == {Failed("TypeError: fetch failed"),
             Failed("SyntaxError: JSON Parse error")}

----------------------------------------------------------------------------
(* main *)

Procs == {1, 2}

\* what getAccessToken can return over the credential files and clock values
TokenOutcomes ==
    {getAccessToken(c, o, n) : c \in ClaudeFiles, o \in OpenCodeFiles, n \in Clock}

\* usage.five_hour ?? {} and usage.seven_day ?? {}
FiveHour(u) == Coalesce(Get(u, "five_hour"), Obj(<<>>))
SevenDay(u) == Coalesce(Get(u, "seven_day"), Obj(<<>>))

\* Math.floor(window.utilization ?? 0)
Pct(window) == MathFloor(Coalesce(Get(window, "utilization"), Frac(0)))

\* the higher of the two windows' percentages
mainFivePctOrSeven(u) ==
    IF Pct(SevenDay(u)) > Pct(FiveHour(u)) THEN Pct(SevenDay(u))
    ELSE Pct(FiveHour(u))

\* const fivePct = Math.floor(fiveHour.utilization ?? 0), which the notifier,
\* the class and the payload are given
mainFivePct(u) == Pct(FiveHour(u))

\* the class with >= for >
cssClassInclusive(fivePct) ==
    IF fivePct >= 80 THEN "critical"
    ELSE IF fivePct >= 50 THEN "warning"
    ELSE "normal"

cssClass(fivePct) ==
    IF fivePct > 80 THEN "critical"
    ELSE IF fivePct > 50 THEN "warning"
    ELSE "normal"

\* output(result): the JSON object written to stdout
output(result) == JsonStringify(Obj(result))

NoCredentials ==
    [text |-> Str("?"),
     tooltip |-> Str("No valid credentials found"),
     class |-> Str("error")]

ApiError(message) ==
    [text |-> Str("!"),
     tooltip |-> [t |-> "API error", message |-> message],
     class |-> Str("error")]

\* the payload of the success path; the tooltip carries the account name and
\* both windows (its plan, tier and extra-usage lines are left out)
UsagePayload(u, p) ==
    [text |-> [t |-> "percent", pct |-> mainFivePct(u)],
     tooltip |-> [t |-> "usage",
                  who |-> Coalesce(Get(Coalesce(Get(p, "account"), Obj(<<>>)),
                                       "full_name"), Str("Unknown")),
                  five |-> mainFivePct(u),
                  fiveResets |-> Get(FiveHour(u), "resets_at"),
                  seven |-> Pct(SevenDay(u)),
                  sevenResets |-> Get(SevenDay(u), "resets_at")],
     class |-> Str(cssClass(mainFivePct(u))),
     percentage |-> Num(mainFivePct(u))]

NoMarker == [t |-> "none"]

\* the thresholds of a sequence of alerts
Fired(alerts) == {alerts[i].threshold : i \in 1..Len(alerts)}

\* how many of the alerts are for a threshold of S
Repeats(alerts, S) == Cardinality({i \in 1..Len(alerts) : alerts[i].threshold \in S})

Min(a, b) == IF a < b THEN a ELSE b

MainInit ==
    /\ stateFile \in {FileAbsent, FileMalformed, FileJson(Null),
                      FileJson(Obj([last_reset |-> MarkerA]))}
    /\ pc = [p \in Procs |-> "idle"]
    /\ usage = [p \in Procs |-> Pending]
    /\ profile = [p \in Procs |-> Pending]
    /\ loaded = [p \in Procs |-> Undef]
    /\ st = [p \in Procs |-> Undef]
    /\ sent = [p \in Procs |-> <<>>]
    /\ saved = [p \in Procs |-> "no write"]
    /\ out = [p \in Procs |-> <<>>]
    /\ epochMarker = NoMarker
    /\ epochAlerted = {}
    /\ epochRepeats = 0
    /\ epochTwice = {}
    /\ epochReached = {}
    /\ roundTrip = TRUE
    /\ log = [p \in Procs |-> <<>>]

\* the history of the epoch (log, the history of an invocation, is apart)
history == <<epochMarker, epochAlerted, epochRepeats, epochTwice, epochReached,
             roundTrip>>


\* the variables of the resolver and notifier runs, which main leaves alone
runs == <<credIn, credOut, nIn, nOut>>

\* an invocation is launched: main up to the two apiCall, which are the only
\* readers of its token; Tokens is what the credential files can give
StartOn(p, Tokens) ==
    /\ pc[p] \in {"idle", "done", "crashed"}
    /\ \E tk \in Tokens :
          IF tk = Thrown
          THEN /\ pc' = [pc EXCEPT ![p] = "crashed"]
               /\ out' = [out EXCEPT ![p] = <<>>]
               /\ log' = [log EXCEPT ![p] = <<>>]
          ELSE IF ~Truthy(tk)
          THEN /\ pc' = [pc EXCEPT ![p] = "done"]
               /\ out' = [out EXCEPT ![p] = <<output(NoCredentials)>>]
               /\ log' = [log EXCEPT ![p] = <<"payload">>]
          ELSE /\ pc' = [pc EXCEPT ![p] = "fetch"]
               /\ out' = [out EXCEPT ![p] = <<>>]
               /\ log' = [log EXCEPT ![p] = <<>>]
    /\ usage' = [usage EXCEPT ![p] = Pending]
    /\ profile' = [profile EXCEPT ![p] = Pending]
    /\ loaded' = [loaded EXCEPT ![p] = Undef]
    /\ st' = [st EXCEPT ![p] = Undef]
    /\ sent' = [sent EXCEPT ![p] = <<>>]
    /\ saved' = [saved EXCEPT ![p] = "no write"]
    /\ UNCHANGED <<stateFile, history, runs>>

Start(p) == StartOn(p, TokenOutcomes)

\* a fetch of Promise.all rejects: the catch writes the error payload
FetchFails(p) ==
    /\ pc[p] = "fetch"
    /\ \E f \in Failures :
          /\ \/ usage[p] = Pending /\ usage' = [usage EXCEPT ![p] = f]
                                   /\ UNCHANGED profile
             \/ profile[p] = Pending /\ profile' = [profile EXCEPT ![p] = f]
                                     /\ UNCHANGED usage
          /\ out' = [out EXCEPT ![p] = Append(@, output(ApiError(Str(f.e))))]
    /\ pc' = [pc EXCEPT ![p] = "done"]
    /\ log' = [log EXCEPT ![p] = Append(@, "payload")]
    /\ UNCHANGED <<stateFile, loaded, st, sent, saved, history,
                   runs>>

\* no response is taken for an upstream error
HasApiErrorNever(u, pr) == FALSE

\* if (usage.error)
HasApiError(u, pr) == Truthy(Get(u, "error"))

\* the invocation goes on as soon as the usage body is there
AfterFetchUsageAlone(p, u, pr) ==
    IF u = Pending
    THEN UNCHANGED <<pc, out, log>>
    ELSE /\ pc' = [pc EXCEPT ![p] = "load"]
         /\ UNCHANGED <<out, log>>

\* main after a fetch resolved: it waits while the other is pending; with both
\* bodies it checks for API errors (lines 368-376) and goes on to loadState
AfterFetch(p, u, pr) ==
    IF u = Pending \/ pr = Pending
    THEN UNCHANGED <<pc, out, log>>
    ELSE IF HasApiError(u, pr)
    THEN /\ out' = [out EXCEPT ![p] = Append(@, output(ApiError(
                     Coalesce(Get(Get(u, "error"), "message"),
                              Str("Unknown")))))]
         /\ pc' = [pc EXCEPT ![p] = "done"]
         /\ log' = [log EXCEPT ![p] = Append(@, "payload")]
    ELSE /\ pc' = [pc EXCEPT ![p] = "load"]
         /\ UNCHANGED <<out, log>>

\* apiCall("usage") resolves with one of Bodies
UsageDoneOn(p, Bodies) ==
    /\ pc[p] = "fetch"
    /\ usage[p] = Pending
    /\ \E body \in Bodies :
          /\ usage' = [usage EXCEPT ![p] = body]
          /\ AfterFetch(p, body, profile[p])
    /\ UNCHANGED <<stateFile, profile, loaded, st, sent, saved, history, runs>>

UsageDone(p) == UsageDoneOn(p, UsageBodies)

\* apiCall("profile") resolves with one of Bodies
ProfileDoneOn(p, Bodies) ==
    /\ pc[p] = "fetch"
    /\ profile[p] = Pending
    /\ \E body \in Bodies :
          /\ profile' = [profile EXCEPT ![p] = body]
          /\ AfterFetch(p, usage[p], body)
    /\ UNCHANGED <<stateFile, usage, loaded, st, sent, saved, history, runs>>

ProfileDone(p) == ProfileDoneOn(p, ProfileBodies)

\* let state = await loadState()
Load(p) ==
    /\ pc[p] = "load"
    /\ loaded' = [loaded EXCEPT ![p] = loadState(stateFile)]
    /\ pc' = [pc EXCEPT ![p] = IF loadState(stateFile) = Thrown
                               THEN "crashed" ELSE "notify"]
    /\ log' = [log EXCEPT ![p] = Append(@, "read")]
    /\ UNCHANGED <<stateFile, usage, profile, st, sent, saved, out,
                   history, runs>>

\* state = await checkAndNotify(fivePct, resetAt, state); an exception ends
\* the invocation (main() has no handler); Spawns is whether notify-send can
\* be spawned (epochTwice is kept by the runs that overlap)
NotifyOn(p, Spawns) ==
    /\ pc[p] = "notify"
    /\ \E spawnOk \in Spawns :
          LET resetAt == Get(FiveHour(usage[p]), "resets_at")
              r == checkAndNotify(mainFivePct(usage[p]), resetAt, loaded[p], spawnOk)
              same == epochMarker = resetAt
              before == IF same THEN epochAlerted ELSE {}
          IN  /\ sent' = [sent EXCEPT ![p] = r.alerts]
              /\ IF r.threw
                 THEN /\ pc' = [pc EXCEPT ![p] = "crashed"]
                      /\ UNCHANGED st
                 ELSE /\ pc' = [pc EXCEPT ![p] = "save"]
                      /\ st' = [st EXCEPT ![p] = r.state]
              /\ log' = [log EXCEPT ![p] =
                            @ \o <<"evaluate">>
                              \o [i \in 1..Len(r.alerts) |-> "alert"]]
              /\ epochMarker' = resetAt
              /\ epochAlerted' = before \cup Fired(r.alerts)
              /\ epochRepeats' = Min(MaxCount, (IF same THEN epochRepeats ELSE 0)
                                                  + Repeats(r.alerts, before))
              /\ epochReached' = (IF same THEN epochReached ELSE {})
                    \cup {th \in ThresholdSet : th <= mainFivePct(usage[p])}
              /\ roundTrip' = IF same THEN roundTrip ELSE TRUE
    /\ UNCHANGED <<stateFile, usage, profile, loaded, saved, out, runs>>

Notify(p) == NotifyOn(p, BOOLEAN) /\ UNCHANGED epochTwice

\* await saveState(state); Writes is whether Bun.write can succeed
SaveOn(p, Writes) ==
    /\ pc[p] = "save"
    /\ \E writeOk \in Writes :
          /\ stateFile' = saveState(stateFile, st[p], writeOk)
          /\ saved' = [saved EXCEPT ![p] = IF writeOk THEN "written" ELSE "failed"]
          /\ roundTrip' = (roundTrip /\ writeOk)
    /\ pc' = [pc EXCEPT ![p] = "output"]
    /\ log' = [log EXCEPT ![p] = Append(@, "write")]
    /\ UNCHANGED <<usage, profile, loaded, st, sent, out, epochMarker,
                   epochAlerted, epochRepeats, epochTwice, epochReached, runs>>

Save(p) == SaveOn(p, BOOLEAN)

\* the class, the tooltip and the output of the success path (lines 392-433)
Output(p) ==
    /\ pc[p] = "output"
    /\ out' = [out EXCEPT ![p] = Append(@, output(UsagePayload(usage[p],
                                                                profile[p])))]
    /\ pc' = [pc EXCEPT ![p] = "done"]
    /\ log' = [log EXCEPT ![p] = Append(@, "payload")]
    /\ UNCHANGED <<stateFile, usage, profile, loaded, st, sent, saved,
                   history, runs>>

Step(p) ==
    \/ Start(p)
    \/ FetchFails(p)
    \/ UsageDone(p)
    \/ ProfileDone(p)
    \/ Load(p)
    \/ Notify(p)
    \/ Save(p)
    \/ Output(p)

----------------------------------------------------------------------------
(* Specifications *)

CredIdle == credIn = [claude |-> FileAbsent, openCode |-> FileAbsent, now |-> 1]
                /\ credOut = Pending

NotifyIdle ==
    /\ nIn = [fivePct |-> 0, resetAt |-> Undef, state |-> ZeroState,
              spawnOk |-> TRUE]
    /\ nOut = Pending

MainIdle == MainInit /\ stateFile = FileAbsent

\* serial invocations of main(): one at a time, each run to its end
Init == MainInit /\ CredIdle /\ NotifyIdle
Next == Step(1)
Spec == Init /\ [][Next]_vars

\* the credential resolver on every credential file and clock value
InitCred == CredInit /\ NotifyIdle /\ MainIdle
NextCred == Resolve /\ UNCHANGED <<notifyVars, mainVars>>
SpecCred == InitCred /\ [][NextCred]_vars

\* checkAndNotify on every utilization, marker and notification state
InitNotify == NotifyInit /\ CredIdle /\ MainIdle
NextNotify == Apply /\ UNCHANGED <<credVars, mainVars>>
SpecNotify == InitNotify /\ [][NextNotify]_vars

\* Two invocations that overlap on the state file, among serial ones: with a
\* token, both fetches resolving and the state written; invocation 2 runs
\* once, started at any moment, and the invocations of 1 other than the one it
\* overlaps run before it starts or after it is over.
OverlapTokens == {Str("tokC")}
OverlapUsages ==
    {Obj([five_hour |-> Obj([utilization |-> u, resets_at |-> m]),
          seven_day |-> d]) :
        u \in {Frac(195), Frac(500), Frac(1000)},
        m \in {MarkerA, MarkerB}, d \in SevenDayWindows}
OverlapProfiles == {Obj([account |-> Obj([full_name |-> Str("Ann")])])}

\* checkAndNotify of an overlapping run, with the history of the thresholds
\* alerted twice
NotifyOverlap(p) ==
    /\ NotifyOn(p, {TRUE})
    /\ LET same == epochMarker = Get(FiveHour(usage[p]), "resets_at")
       IN  epochTwice' = (IF same THEN epochTwice ELSE {})
              \cup (Fired(sent'[p]) \cap (IF same THEN epochAlerted ELSE {}))

InitOverlap == MainIdle /\ CredIdle /\ NotifyIdle
NextOverlap ==
    \/ pc[2] \in {"idle", "done"} /\ StartOn(1, OverlapTokens)
    \/ pc[2] = "idle" /\ StartOn(2, OverlapTokens)
    \/ \E p \in Procs : UsageDoneOn(p, OverlapUsages)
    \/ \E p \in Procs : ProfileDoneOn(p, OverlapProfiles)
    \/ \E p \in Procs : Load(p)
    \/ \E p \in Procs : NotifyOverlap(p)
    \/ \E p \in Procs : SaveOn(p, {TRUE})
    \/ \E p \in Procs : Output(p)
SpecOverlap == InitOverlap /\ [][NextOverlap]_vars

\* serial invocations from an absent state file, every write of the state
\* succeeding
InitWritten == MainIdle /\ CredIdle /\ NotifyIdle
NextWritten ==
    \/ Start(1)
    \/ FetchFails(1)
    \/ UsageDone(1)
    \/ ProfileDone(1)
    \/ Load(1)
    \/ Notify(1)
    \/ SaveOn(1, {TRUE})
    \/ Output(1)
SpecWritten == InitWritten /\ [][NextWritten]_vars

----------------------------------------------------------------------------
(* What the claims speak of *)

\* the thresholds that utilization u has reached
Crossed(u) == {t \in ThresholdSet : t <= u}

\* the thresholds of a sequence of alerts, in the order sent
ThresholdsOf(alerts) == [i \in 1..Len(alerts) |-> alerts[i].threshold]

\* the members of an array
Members(arr) == {arr.a[i] : i \in 1..Len(arr.a)}

\* a marker with absence (no key, undefined, null) as one value
Marker(v) == Coalesce(v, Null)

\* the short window's utilization and marker of invocation p
FivePctOf(p) == Pct(FiveHour(usage[p]))
ResetAtOf(p) == Get(FiveHour(usage[p]), "resets_at")

\* invocation p has come back from checkAndNotify
Evaluated(p) == pc[p] \in {"save", "output", "done"} /\ st[p] # Undef

\* invocation p is over, by return or by an exception nothing handles
Over(p) == pc[p] \in {"done", "crashed"}

\* the instant an expiry field denotes, where it denotes one
IsInstant(e) ==
    \/ e.t = "number"
    \/ e.t = "string" /\ DateGetTime(e.s).t = "number"
InstantOf(e) == IF e.t = "number" THEN e.n ELSE DateGetTime(e.s).n

\* the credential of a file: its fields, where the file is a JSON object
\* holding them
ClaudeOauth(file) ==
    IF file.k = "json" /\ file.v.t = "object"
    THEN Get(file.v, "claudeAiOauth") ELSE Undef
OpenCodeAnthropic(file) ==
    IF file.k = "json" /\ file.v.t = "object"
    THEN Get(file.v, "anthropic") ELSE Undef
Field(obj, key) == IF obj.t = "object" THEN Get(obj, key) ELSE Undef

\* an expiry that is absent or strictly later than now
Unexpired(e, now) == e = Undef \/ (IsInstant(e) /\ InstantOf(e) > now)

\* a source yields a usable token: the token is there and not empty, the
\* OpenCode type tag is "oauth", the expiry is absent or strictly later
UsableClaude(file, now) ==
    /\ Field(ClaudeOauth(file), "accessToken") = Str("tokC")
    /\ Unexpired(Field(ClaudeOauth(file), "expiresAt"), now)
UsableOpenCode(file, now) ==
    /\ Field(OpenCodeAnthropic(file), "access") = Str("tokO")
    /\ Field(OpenCodeAnthropic(file), "type") = Str("oauth")
    /\ Unexpired(Field(OpenCodeAnthropic(file), "expires"), now)

\* a source that is broken: no file, not readable, not JSON, no token field,
\* or (OpenCode) a type tag other than "oauth"
BrokenClaude(file) ==
    \/ file.k # "json"
    \/ Field(ClaudeOauth(file), "accessToken") = Undef
BrokenOpenCode(file) ==
    \/ file.k # "json"
    \/ Field(OpenCodeAnthropic(file), "access") = Undef
    \/ Field(OpenCodeAnthropic(file), "type") # Str("oauth")

----------------------------------------------------------------------------
(* Claims *)

\* C1: over serial invocations whose state round-trips through the store, no
\* threshold raises a second alert while the short window's reset marker
\* stays the same, whatever the marker is (absent included).
C1_OneAlertPerThresholdAndEpoch == roundTrip => epochRepeats = 0

\* C2: with a present marker equal to the persisted last_reset, notified
\* thresholds S and utilization u, checkAndNotify returns S union {t <= u} as
\* notified thresholds, sends one alert for each threshold t <= u not in S and
\* no other, and leaves last_reset as it was.
C2_SameEpochTransition ==
    (/\ nOut # Pending
     /\ nIn.resetAt # Undef
     /\ Get(nIn.state, "last_reset") = nIn.resetAt)
    => LET S == Members(Get(nIn.state, "notified_thresholds")) IN
       /\ ~nOut.threw
       /\ Members(Get(nOut.state, "notified_thresholds"))
            = S \cup Crossed(nIn.fivePct)
       /\ ThresholdsOf(nOut.alerts) = Ascending(Crossed(nIn.fivePct) \ S)
       /\ Get(nOut.state, "last_reset") = Get(nIn.state, "last_reset")

C2_Witness ==
    /\ nOut # Pending
    /\ nIn.resetAt = MarkerA
    /\ nIn.state = Obj([notified_thresholds |-> Arr(<<80>>),
                        last_reset |-> MarkerA])
    /\ nIn.fivePct = 93
    /\ ThresholdsOf(nOut.alerts) = <<50, 90>>

\* C3: when the window's marker differs from the persisted one (two present
\* values, or one present and one absent), the state checkAndNotify returns
\* has the current marker and exactly the thresholds <= the utilization, each
\* of them alerted; and the state file afterwards holds either that state or
\* the state that was loaded, never a mix of the two.
C3_RolloverClearsAndAdopts ==
    \A p \in Procs :
        (Evaluated(p) /\ Marker(ResetAtOf(p))
                            # Marker(Get(loaded[p], "last_reset")))
        => /\ Get(st[p], "last_reset") = Marker(ResetAtOf(p))
           /\ Get(st[p], "notified_thresholds")
                = Arr(Ascending(Crossed(FivePctOf(p))))
           /\ ThresholdsOf(sent[p]) = Ascending(Crossed(FivePctOf(p)))
           /\ loadState(stateFile) \in {JsonStringify(st[p]), loaded[p]}
           /\ saved[p] = "written" => loadState(stateFile) = JsonStringify(st[p])

C3_Witness ==
    /\ pc[1] = "done"
    /\ saved[1] = "written"
    /\ loaded[1] = Obj([notified_thresholds |-> Arr(<<50, 80>>),
                        last_reset |-> MarkerA])
    /\ ResetAtOf(1) = MarkerB
    /\ FivePctOf(1) = 50
    /\ stateFile = FileJson(Obj([notified_thresholds |-> Arr(<<50>>),
                                 last_reset |-> MarkerB]))

\* C4: with no previously notified thresholds and utilization 92, the
\* invocation sends exactly three alerts, for 50 then 80 then 90, and the
\* state it persists holds exactly 50, 80, 90.
C4_JumpFiresAllPassed ==
    \A p \in Procs :
        (/\ Evaluated(p)
         /\ FivePctOf(p) = 92
         /\ Get(loaded[p], "notified_thresholds") = Arr(<<>>))
        => /\ ThresholdsOf(sent[p]) = <<50, 80, 90>>
           /\ Get(st[p], "notified_thresholds") = Arr(<<50, 80, 90>>)
           /\ saved[p] = "written"
                => Get(loadState(stateFile), "notified_thresholds")
                     = Arr(<<50, 80, 90>>)

C4_Witness ==
    /\ pc[1] = "done"
    /\ loaded[1] = ZeroState
    /\ FivePctOf(1) = 92
    /\ saved[1] = "written"
    /\ Len(sent[1]) = 3

\* C5: the urgency and the icon of an alert follow from its threshold alone:
\* 90 and 95 are critical and red, 80 is critical and orange, 50 is normal
\* and yellow, whatever the utilization.
C5_SeverityByThreshold ==
    nOut # Pending =>
        \A i \in 1..Len(nOut.alerts) :
            LET a == nOut.alerts[i] IN
            /\ a.threshold \in {90, 95}
                 => a.urgency = "critical" /\ a.icon = "red circle"
            /\ a.threshold = 80
                 => a.urgency = "critical" /\ a.icon = "orange circle"
            /\ a.threshold = 50
                 => a.urgency = "normal" /\ a.icon = "yellow circle"

C5_Witness ==
    /\ nOut # Pending
    /\ nIn.fivePct = 97
    /\ Len(nOut.alerts) = 4
    /\ nOut.alerts[1].urgency = "normal"
    /\ nOut.alerts[2].icon = "orange circle"
    /\ nOut.alerts[3].icon = "red circle"
    /\ nOut.alerts[2].urgency = nOut.alerts[3].urgency

\* C6: getAccessToken returns the Claude CLI token whenever that source
\* yields a usable one, the OpenCode token only when the Claude CLI source
\* yields none, and null only when neither source yields a usable token.
C6_FirstSourceWins ==
    credOut # Pending =>
        /\ UsableClaude(credIn.claude, credIn.now) => credOut = Str("tokC")
        /\ credOut = Str("tokO") => ~UsableClaude(credIn.claude, credIn.now)
        /\ credOut = Null
             => /\ ~UsableClaude(credIn.claude, credIn.now)
                /\ ~UsableOpenCode(credIn.openCode, credIn.now)

C6_Witness ==
    /\ credOut = Str("tokC")
    /\ UsableClaude(credIn.claude, credIn.now)
    /\ UsableOpenCode(credIn.openCode, credIn.now)

\* C7: a credential whose expiry is present and not later than now (equal
\* included) is rejected: its token is not what the resolver returns.
C7_ExpiredIsRejected ==
    credOut # Pending =>
        /\ LET e == Field(ClaudeOauth(credIn.claude), "expiresAt") IN
           (IsInstant(e) /\ InstantOf(e) <= credIn.now) => credOut # Str("tokC")
        /\ LET e == Field(OpenCodeAnthropic(credIn.openCode), "expires") IN
           (IsInstant(e) /\ InstantOf(e) <= credIn.now) => credOut # Str("tokO")

\* C8: a broken source counts as absent: the resolver never throws, a broken
\* Claude CLI source leaves a usable OpenCode token to be returned, and two
\* broken sources give null.
C8_BrokenSourceIsAbsent ==
    credOut # Pending =>
        /\ credOut # Thrown
        /\ (BrokenClaude(credIn.claude)
              /\ UsableOpenCode(credIn.openCode, credIn.now))
             => credOut = Str("tokO")
        /\ (BrokenClaude(credIn.claude) /\ BrokenOpenCode(credIn.openCode))
             => credOut = Null

C8_Witness ==
    /\ credOut = Str("tokO")
    /\ credIn.claude = FileMalformed
    /\ UsableOpenCode(credIn.openCode, credIn.now)

\* C9: an invocation that is over has written exactly one payload with text,
\* tooltip and class to standard output.
C9_OnePayloadPerInvocation ==
    \A p \in Procs :
        Over(p) => /\ Len(out[p]) = 1
                   /\ {"text", "tooltip", "class"} \subseteq DOMAIN out[p][1].o

\* C10 as stated: an error object in either response (usage or profile) ends
\* the invocation in the error payload, with no alert and no state write.
C10_EitherErrorShortCircuits ==
    \A p \in Procs :
        (/\ usage[p].t = "object"
         /\ profile[p].t = "object"
         /\ Truthy(Get(usage[p], "error")) \/ Truthy(Get(profile[p], "error")))
        => /\ pc[p] = "done"
           /\ Len(out[p]) = 1
           /\ out[p][1].o.class = Str("error")
           /\ sent[p] = <<>>
           /\ saved[p] = "no write"

\* C10 amended: an error object in the usage response ends the invocation in
\* the error payload, whose message is the error object's (or "Unknown"), with
\* no threshold evaluation, alert or state write; an error object in the
\* profile response alone does not, and the usage payload is written.
C10_UsageErrorShortCircuits ==
    \A p \in Procs :
        (usage[p].t = "object" /\ profile[p].t = "object")
        => /\ Truthy(Get(usage[p], "error"))
                => /\ pc[p] = "done"
                   /\ out[p] = <<output(ApiError(
                          Coalesce(Get(Get(usage[p], "error"), "message"),
                                   Str("Unknown"))))>>
                   /\ out[p][1].o.class = Str("error")
                   /\ loaded[p] = Undef /\ st[p] = Undef
                   /\ sent[p] = <<>>
                   /\ saved[p] = "no write"
           /\ (~Truthy(Get(usage[p], "error")) /\ pc[p] = "done")
                => out[p] = <<output(UsagePayload(usage[p], profile[p]))>>

C10_Witness ==
    /\ pc[1] = "done"
    /\ profile[1].t = "object"
    /\ usage[1] = Obj([error |-> Obj([message |-> Str("rate limited")]),
                       five_hour |-> Obj([utilization |-> Frac(925),
                                          resets_at |-> MarkerA])])
    /\ out[1][1].o.tooltip = [t |-> "API error", message |-> Str("rate limited")]

----------------------------------------------------------------------------
(* C11 to C13: the payload and the state store *)

\* how invocation p came to the error output: no token, a fetch that failed,
\* or an error object in the usage response
NoToken(p) == pc[p] = "done" /\ usage[p] = Pending /\ profile[p] = Pending
FetchFailed(p) == usage[p].t = "failed" \/ profile[p].t = "failed"
UpstreamError(p) ==
    /\ usage[p].t = "object"
    /\ profile[p].t = "object"
    /\ Truthy(Get(usage[p], "error"))
ErrorEnding(p) == NoToken(p) \/ FetchFailed(p) \/ UpstreamError(p)

\* n is the floor of the utilization v (held in tenths)
IsFloorOf(n, v) == 10 * n <= v.x10 /\ v.x10 < 10 * n + 10

\* the short window's utilization as the upstream reported it, if it did
Reported(p) ==
    LET five == Get(usage[p], "five_hour")
    IN  IF five.t = "object" THEN Get(five, "utilization") ELSE Undef

FlooredOf(p) ==
    IF Reported(p).t = "number"
    THEN CHOOSE n \in 0..MaxPct : IsFloorOf(n, Reported(p))
    ELSE 0

\* invocation p has ended on the success path
Succeeded(p) == pc[p] = "done" /\ ~ErrorEnding(p)

\* C12: on the success path the class follows from the floored short-window
\* utilization alone, by strict comparisons: above 80 "critical", above 50 up
\* to 80 "warning", up to 50 "normal"; utilization 19 gives class "normal"
\* and percentage 19.
C12_ClassByStrictComparison ==
    \A p \in Procs :
        Succeeded(p) =>
            LET n == FlooredOf(p)
            IN  /\ Len(out[p]) = 1
                /\ n > 80 => out[p][1].o.class = Str("critical")
                /\ (50 < n /\ n <= 80) => out[p][1].o.class = Str("warning")
                /\ n <= 50 => out[p][1].o.class = Str("normal")
                /\ n = 19 => out[p][1].o.percentage = Num(19)

\* utilization 80.9: the alert for 80 has fired and the class is "warning"
C12_Witness ==
    /\ Succeeded(1)
    /\ FlooredOf(1) = 80
    /\ 80 \in Fired(sent[1])
    /\ out[1][1].o.class = Str("warning")

\* the thresholds invocation p has to alert, from the state it loaded and the
\* short window of its response
DueOf(p) ==
    LET known == Get(loaded[p], "notified_thresholds")
        reached == Crossed(FlooredOf(p))
    IN  IF Get(loaded[p], "last_reset") # ResetAtOf(p) THEN reached
        ELSE reached \ (IF known.t = "array" THEN Members(known) ELSE {})

\* C13: loadState never throws and gives the zero state when the file is
\* missing or cannot be read or parsed; a write that fails is swallowed: the
\* invocation goes on to its payload, and its payload and alerts are what the
\* response and the loaded state give, as after a write that succeeded.
C13_StoreFailuresNeverSurface ==
    \A p \in Procs :
        /\ loaded[p] # Thrown
        /\ (pc[p] = "notify" /\ stateFile.k # "json") => loaded[p] = ZeroState
        /\ saved[p] = "failed" => pc[p] \in {"output", "done"}
        /\ (saved[p] \in {"written", "failed"} /\ pc[p] = "done") =>
              /\ out[p] = <<output(UsagePayload(usage[p], profile[p]))>>
              /\ Fired(sent[p]) = DueOf(p)

C13_Witness ==
    /\ stateFile = FileMalformed
    /\ loaded[1] = ZeroState
    /\ saved[1] = "failed"
    /\ pc[1] = "done"
    /\ Fired(sent[1]) = {50, 80}
    /\ Len(out[1]) = 1

----------------------------------------------------------------------------
(* C14 and C15: two invocations that overlap *)

\* C14 as stated: in an epoch with overlapping invocations, at most one alert
\* repeats a threshold that was alerted before in that epoch.
C14_LostUpdateCostsOneAlert ==
    epochMarker.t = "string" => epochRepeats <= 1

\* C14 amended: in an epoch with two overlapping invocations and serial ones,
\* no alert is for a threshold that was alerted twice in that epoch already:
\* each threshold is repeated at most once.
C14_OneRepeatPerThreshold ==
    [][\A p \in Procs :
          (/\ pc[p] = "notify"
           /\ pc'[p] # "notify"
           /\ epochMarker = ResetAtOf(p))
          => Fired(sent'[p]) \cap epochTwice = {}]_vars

\* both overlapping invocations loaded the empty state, saw 100% in the same
\* window and alerted all four thresholds
C14_Witness ==
    /\ pc[1] = "done" /\ pc[2] = "done"
    /\ loaded[1] = ZeroState /\ loaded[2] = ZeroState
    /\ ResetAtOf(1) = ResetAtOf(2)
    /\ Fired(sent[1]) = ThresholdSet
    /\ Fired(sent[2]) = ThresholdSet
    /\ epochTwice = ThresholdSet

\* C15: two invocations that loaded the same persisted state and whose
\* responses have the same short window (they may differ in the long window's
\* utilization and resets_at) send the same alerts, leave the same
\* notification state to persist and write the same class and percentage.
C15_OnlyShortWindowDrives ==
    (/\ pc[1] = "done" /\ pc[2] = "done"
     /\ loaded[1] = loaded[2]
     /\ Get(usage[1], "five_hour") = Get(usage[2], "five_hour"))
    => /\ sent[1] = sent[2]
       /\ st[1] = st[2]
       /\ saved[1] = saved[2]
       /\ out[1][1].o.class = out[2][1].o.class
       /\ out[1][1].o.percentage = out[2][1].o.percentage

C15_Witness ==
    /\ pc[1] = "done" /\ pc[2] = "done"
    /\ loaded[1] = loaded[2]
    /\ Get(usage[1], "five_hour") = Get(usage[2], "five_hour")
    /\ Get(usage[1], "seven_day") # Get(usage[2], "seven_day")
    /\ Fired(sent[1]) = {50}
    /\ out[2][1].o.percentage = Num(50)

----------------------------------------------------------------------------
(* C16 to C18: the order of an invocation's steps, the fetches, the error
   output *)

\* the places of event e in the log of invocation p
Places(p, e) == {i \in 1..Len(log[p]) : log[p][i] = e}

\* every e of invocation p came before every f
Precedes(p, e, f) == \A i \in Places(p, e), j \in Places(p, f) : i < j

\* the store was read once, then the thresholds were evaluated, then the
\* alerts were sent, then the store was written once, then the payload
ReadEvaluateAlertWritePayload(p) ==
    /\ Cardinality(Places(p, "read")) = 1
    /\ Cardinality(Places(p, "write")) = 1
    /\ Cardinality(Places(p, "evaluate")) = 1
    /\ Cardinality(Places(p, "payload")) = 1
    /\ Cardinality(Places(p, "alert")) = Len(sent[p])
    /\ Precedes(p, "read", "evaluate")
    /\ Precedes(p, "evaluate", "alert")
    /\ Precedes(p, "evaluate", "write")
    /\ Precedes(p, "alert", "write")
    /\ Precedes(p, "write", "payload")

\* C16 as stated: every invocation that is over, whatever its outcome, has
\* read the store once, then evaluated, then alerted, then written the store
\* once, then written its payload.
C16_OneReadOneWriteAlways ==
    \A p \in Procs : Over(p) => ReadEvaluateAlertWritePayload(p)

\* C16 amended: no invocation reads or writes the store more than once; one
\* that ends on the success path has read it once, then evaluated, then sent
\* its alerts, then attempted one write, then written its payload; one that
\* ends in the error output has neither read nor written the store.
C16_OneReadOneWriteOnSuccess ==
    \A p \in Procs :
        /\ Cardinality(Places(p, "read")) <= 1
        /\ Cardinality(Places(p, "write")) <= 1
        /\ Succeeded(p) => ReadEvaluateAlertWritePayload(p)
        /\ ErrorEnding(p) => /\ Places(p, "read") = {}
                             /\ Places(p, "write") = {}
                             /\ log[p] = <<"payload">>

C16_Witness ==
    /\ Succeeded(1)
    /\ log[1] = <<"read", "evaluate", "alert", "alert", "write", "payload">>

\* the description of the failure of invocation p's fetch that failed
FailureOf(p) == IF usage[p].t = "failed" THEN usage[p].e ELSE profile[p].e

\* C17: both fetches are pending together; an invocation is past the fetches
\* (it has loaded the state, evaluated or written its usage payload) only
\* with both bodies there; a fetch that fails ends the invocation in one
\* payload of class "error" whose message holds the failure's description,
\* with no evaluation, also when the other fetch gave valid usage data.
C17_BothFetchesOrError ==
    \A p \in Procs :
        /\ (pc[p] \in {"load", "notify", "save", "output"} \/ loaded[p] # Undef)
              => usage[p].t = "object" /\ profile[p].t = "object"
        /\ FetchFailed(p) =>
              /\ pc[p] = "done"
              /\ Len(out[p]) = 1
              /\ out[p][1].o.class = Str("error")
              /\ out[p][1].o.tooltip =
                    [t |-> "API error", message |-> Str(FailureOf(p))]
              /\ loaded[p] = Undef
              /\ sent[p] = <<>>

\* the usage fetch gave 92.5% and then the profile fetch failed
C17_Witness ==
    /\ profile[1] = Failed("TypeError: fetch failed")
    /\ usage[1].t = "object"
    /\ Reported(1) = Frac(925)
    /\ out[1][1].o.class = Str("error")

\* how many writes of the store a log holds
WritesIn(l) == Cardinality({i \in 1..Len(l) : l[i] = "write"})

\* C18: an invocation that ends in the error output (no token, a failed
\* fetch, an upstream error) has loaded no state, sent no alert and written
\* no state; and a step that is no write of the store leaves the state file
\* as it is, so the file is after such an invocation what it was before.
C18_ErrorLeavesStateAlone ==
    /\ [](\A p \in Procs :
             ErrorEnding(p) =>
                /\ pc[p] = "done"
                /\ out[p][1].o.class = Str("error")
                /\ sent[p] = <<>>
                /\ loaded[p] = Undef /\ st[p] = Undef
                /\ saved[p] = "no write"
                /\ Places(p, "write") = {})
    /\ [][(\A p \in Procs : WritesIn(log'[p]) <= WritesIn(log[p]))
             => stateFile' = stateFile]_vars

\* a poll with an upstream error after a poll that persisted its alerts
C18_Witness ==
    /\ UpstreamError(1)
    /\ pc[1] = "done"
    /\ stateFile = FileJson(Obj([notified_thresholds |-> Arr(<<50, 80>>),
                                 last_reset |-> MarkerA]))

----------------------------------------------------------------------------
(* C19: the persisted thresholds *)

\* the persisted notified_thresholds; an absent file holds none
Persisted ==
    IF stateFile.k = "json" THEN Get(stateFile.v, "notified_thresholds")
    ELSE Arr(<<>>)

\* arr holds thresholds only, none twice, and with a threshold every smaller
\* one
IsThresholdPrefix(arr) ==
    /\ arr.t = "array"
    /\ Members(arr) \subseteq ThresholdSet
    /\ Cardinality(Members(arr)) = Len(arr.a)
    /\ \A th \in Members(arr) :
          \A lower \in ThresholdSet : lower < th => lower \in Members(arr)

\* C19: from an absent state file, after serial invocations the persisted
\* notified_thresholds hold thresholds only, none twice, with every threshold
\* the smaller ones, and are exactly the thresholds <= the highest utilization
\* evaluated since the marker last changed.
C19_PersistedIsReachedPrefix ==
    pc[1] \in {"idle", "done"} =>
        /\ IsThresholdPrefix(Persisted)
        /\ Members(Persisted) = epochReached

\* C19 where the window has a marker
C19_WithMarker ==
    (pc[1] \in {"idle", "done"} /\ epochMarker.t \in {"string", "none"}) =>
        /\ IsThresholdPrefix(Persisted)
        /\ Members(Persisted) = epochReached

\* the first part of C19, also with invocations that overlap
C19_Prefix == IsThresholdPrefix(Persisted)

====
